---------------------------- MODULE Spec2Model ----------------------------
(***************************************************************************)
(* A model of the mcp-nvidia tool server (src/src/mcp_nvidia/server.py):   *)
(* the call_tool handler, the per-domain search coroutines it fans out to  *)
(* through search_all_domains, the content discovery re-scoring, and the   *)
(* module-level resolution of DEFAULT_DOMAINS.                             *)
(*                                                                         *)
(* Python strings are sequences of one-character strings, so that          *)
(* replace, rstrip, lower, find, split and slicing are computed.           *)
(***************************************************************************)
EXTENDS Integers, Sequences, FiniteSets, TLC

(***************************************************************************)
(* Python str operations                                                   *)
(***************************************************************************)

UpperChars ==
    <<"A","B","C","D","E","F","G","H","I","J","K","L","M",
      "N","O","P","Q","R","S","T","U","V","W","X","Y","Z">>

LowerChars ==
    <<"a","b","c","d","e","f","g","h","i","j","k","l","m",
      "n","o","p","q","r","s","t","u","v","w","x","y","z">>

\* str.lower() of one character
LowerChar(c) ==
    IF \E i \in 1..Len(UpperChars) : UpperChars[i] = c
    THEN LowerChars[CHOOSE i \in 1..Len(UpperChars) : UpperChars[i] = c]
    ELSE c

\* s.lower()
Lower(s) == [i \in 1..Len(s) |-> LowerChar(s[i])]

\* s[a:b] with 0-based Python slice indices 0 <= a, b
Slice(s, a, b) ==
    LET hi == IF b > Len(s) THEN Len(s) ELSE b
    IN  IF a >= hi THEN <<>> ELSE SubSeq(s, a + 1, hi)

\* s.startswith(p) at 0-based offset k
MatchAt(s, p, k) ==
    /\ k + Len(p) <= Len(s)
    /\ \A i \in 1..Len(p) : s[k + i] = p[i]

\* s.find(p, start): the least 0-based index >= start where p occurs, else -1
FindFrom(s, p, start) ==
    LET hits == {k \in start..(Len(s) - Len(p)) : MatchAt(s, p, k)}
    IN  IF hits = {} THEN -1 ELSE CHOOSE k \in hits : \A j \in hits : k <= j

\* s.find(p)
Find(s, p) == FindFrom(s, p, 0)

\* p in s
Contains(s, p) == Find(s, p) # -1

\* s.endswith(p)
EndsWith(s, p) == Len(p) <= Len(s) /\ MatchAt(s, p, Len(s) - Len(p))

\* s.replace(old, ""): every non-overlapping occurrence, left to right
RECURSIVE RemoveAll(_, _)
RemoveAll(s, old) ==
    LET k == Find(s, old)
    IN  IF k = -1 \/ Len(old) = 0 THEN s
        ELSE Slice(s, 0, k) \o RemoveAll(Slice(s, k + Len(old), Len(s)), old)

\* s.rstrip(c) for a one-character c
RECURSIVE RStrip(_, _)
RStrip(s, c) ==
    IF Len(s) > 0 /\ s[Len(s)] = c THEN RStrip(SubSeq(s, 1, Len(s) - 1), c) ELSE s

Whitespace == {" ", "\n", "\t"}

\* s.strip()
RECURSIVE Strip(_)
Strip(s) ==
    IF Len(s) > 0 /\ s[1] \in Whitespace THEN Strip(Tail(s))
    ELSE IF Len(s) > 0 /\ s[Len(s)] \in Whitespace THEN Strip(SubSeq(s, 1, Len(s) - 1))
    ELSE s

\* s.split(sep) for a one-character sep: a non-empty list of fields
RECURSIVE Split(_, _)
Split(s, sep) ==
    LET k == Find(s, <<sep>>)
    IN  IF k = -1 THEN <<s>>
        ELSE <<Slice(s, 0, k)>> \o Split(Slice(s, k + 1, Len(s)), sep)

\* c * n
Repeat(c, n) == [i \in 1..n |-> c]

(***************************************************************************)
(* String literals of the program and of the modelled inputs               *)
(***************************************************************************)

S_https == <<"h","t","t","p","s",":","/","/">>
S_http == <<"h","t","t","p",":","/","/">>
S_nvidia_com == <<"n","v","i","d","i","a",".","c","o","m">>
S_dot_nvidia_com == <<".">> \o S_nvidia_com
S_developer == <<"d","e","v","e","l","o","p","e","r">>
S_blogs == <<"b","l","o","g","s">>
S_nvidianews == <<"n","v","i","d","i","a","n","e","w","s">>
S_docs == <<"d","o","c","s">>
S_build == <<"b","u","i","l","d">>

D_developer == S_https \o S_developer \o S_dot_nvidia_com \o <<"/">>
D_blogs == S_https \o S_blogs \o S_dot_nvidia_com \o <<"/">>
D_news == S_https \o S_nvidianews \o S_dot_nvidia_com \o <<"/">>
D_docs == S_https \o S_docs \o S_dot_nvidia_com \o <<"/">>
D_build == S_https \o S_build \o S_dot_nvidia_com \o <<"/">>

\* Domains a caller or the environment may supply besides the defaults
D_google == S_https \o <<"g","o","o","g","l","e",".","c","o","m","/">>
D_evil == S_https \o <<"e","v","i","l",".","c","o","m","/">>
D_docs_cuda == D_docs \o <<"c","u","d","a","/">>
D_root == S_https \o S_nvidia_com \o <<"/">>
D_upper == <<"H","T","T","P","S",":","/","/","D","o","c","s",".","N","V","I","D","I","A",".","c","o","m","/">>
D_fake == S_https \o <<"n","v","i","d","i","a","-","f","a","k","e",".","c","o","m","/">>
D_not == S_https \o <<"n","o","t","n","v","i","d","i","a",".","c","o","m","/">>
D_bare == S_nvidia_com
D_port == S_https \o S_docs \o S_dot_nvidia_com \o <<":","4","4","3","/">>
D_portlike == S_https \o <<"e","v","i","l",".","c","o","m",":">> \o S_dot_nvidia_com
D_bracket == S_https \o <<"[">> \o S_nvidia_com

(***************************************************************************)
(* urlparse, as far as validate_nvidia_domain reads it: netloc and path    *)
(***************************************************************************)

SchemeChars ==
    {LowerChars[i] : i \in 1..Len(LowerChars)} \cup {UpperChars[i] : i \in 1..Len(UpperChars)}
        \cup {"0","1","2","3","4","5","6","7","8","9","+","-","."}

Letters ==
    {LowerChars[i] : i \in 1..Len(LowerChars)} \cup {UpperChars[i] : i \in 1..Len(UpperChars)}

\* the url with "<scheme>:" removed when the text before the first ":" is a scheme
AfterScheme(url) ==
    LET i == Find(url, <<":">>)
    IN  IF i > 0 /\ url[1] \in Letters /\ \A j \in 1..i : url[j] \in SchemeChars
        THEN Slice(url, i + 1, Len(url))
        ELSE url

\* the least 0-based index >= start of one of "/", "?", "#", else len(url)
NetlocEnd(url, start) ==
    LET ds == {k \in start..(Len(url) - 1) : url[k + 1] \in {"/", "?", "#"}}
    IN  IF ds = {} THEN Len(url) ELSE CHOOSE k \in ds : \A j \in ds : k <= j

\* the text before the first of the characters of cs, else all of it
Before(s, cs) ==
    LET ds == {k \in 0..(Len(s) - 1) : s[k + 1] \in cs}
    IN  IF ds = {} THEN s ELSE Slice(s, 0, CHOOSE k \in ds : \A j \in ds : k <= j)

urlparse(url) ==
    LET rest == AfterScheme(url)
        hasNetloc == MatchAt(rest, <<"/", "/">>, 0)
        cut == NetlocEnd(rest, 2)
    IN  [netloc |-> IF hasNetloc THEN Slice(rest, 2, cut) ELSE <<>>,
         path |-> Before(IF hasNetloc THEN Slice(rest, cut, Len(rest)) ELSE rest,
                         {"?", "#"})]

\* urlparse raises ValueError("Invalid IPv6 URL"): one bracket without the other
UrlparseRaises(url) ==
    LET netloc == urlparse(url).netloc
    IN  Contains(netloc, <<"[">>) # Contains(netloc, <<"]">>)

\* the hostname validate_nvidia_domain compares: netloc, or the first path segment
ValidatedHostname(domain) ==
    LET parsed == urlparse(domain)
    IN  Lower(IF parsed.netloc # <<>> THEN parsed.netloc
              ELSE Split(parsed.path, "/")[1])

\* the try block, and `except Exception: return False`
validate_nvidia_domain(domain) ==
    IF UrlparseRaises(domain) THEN FALSE
    ELSE LET hostname == ValidatedHostname(domain)
         IN  hostname = S_nvidia_com \/ EndsWith(hostname, S_dot_nvidia_com)

(***************************************************************************)
(* Module-level DEFAULT_DOMAINS and its environment override               *)
(***************************************************************************)

BUILTIN_DEFAULT_DOMAINS == <<D_developer, D_blogs, D_news, D_docs, D_build>>

\* os.getenv: None (the empty tuple stands for unset or empty) or a string
ENV_docs == D_docs
ENV_mixed == D_evil \o <<",", " ">> \o D_build
ENV_bad == D_evil

EnvValues == {<<>>, ENV_docs, ENV_mixed, ENV_bad}

StripAll(fields) == [i \in 1..Len(fields) |-> Strip(fields[i])]

NonEmptyStr(s) == s # <<>>

\* raw_domains = [d.strip() for d in custom_domains.split(",") if d.strip()]
RawDomains(custom_domains) == SelectSeq(StripAll(Split(custom_domains, ",")), NonEmptyStr)

\* the override with the fallback dropped: an empty valid subset is used as it is
OverrideDefaultsFailClosed(validated, defaults) == validated

\* `if validated_domains: DEFAULT_DOMAINS = validated_domains`, else unchanged
OverrideDefaults(validated, defaults) == IF validated # <<>> THEN validated ELSE defaults

ResolveDefaultDomains(env) ==
    IF env = <<>> THEN BUILTIN_DEFAULT_DOMAINS
    ELSE OverrideDefaults(SelectSeq(RawDomains(env), validate_nvidia_domain),
                          BUILTIN_DEFAULT_DOMAINS)

\* Entries the override may list, and the values of MCP_NVIDIA_DOMAINS built
\* from at most MaxOverrideEntries of them
MaxOverrideEntries == 2

ImportEntries ==
    {<<>>, D_docs, D_root, D_upper, D_fake, D_not, D_bare, D_port, D_portlike, D_bracket,
     D_evil}

\* ", ".join(entries)
RECURSIVE JoinComma(_)
JoinComma(entries) ==
    IF entries = <<>> THEN <<>>
    ELSE IF Len(entries) = 1 THEN entries[1]
    ELSE entries[1] \o <<",", " ">> \o JoinComma(Tail(entries))

ImportEnvValues ==
    {JoinComma(es) : es \in UNION {[1..n -> ImportEntries] : n \in 0..MaxOverrideEntries}}

(***************************************************************************)
(* Python values of the arguments object: a tag and one payload per type   *)
(***************************************************************************)

PyVal(t, s, n, l) == [t |-> t, s |-> s, n |-> n, l |-> l]
Absent == PyVal("absent", <<>>, 0, <<>>)
PyNone == PyVal("none", <<>>, 0, <<>>)
PyStr(s) == PyVal("str", s, 0, <<>>)
PyInt(n) == PyVal("int", <<>>, n, <<>>)
PyList(l) == PyVal("list", <<>>, 0, l)

\* arguments.get(key)
Get(v) == IF v.t = "absent" THEN PyNone ELSE v

\* arguments.get(key, default)
GetDefault(v, default) == IF v.t = "absent" THEN default ELSE v

\* not v
Falsy(v) ==
    \/ v.t = "none"
    \/ v.t = "str" /\ v.s = <<>>
    \/ v.t = "int" /\ v.n = 0
    \/ v.t = "list" /\ v.l = <<>>

StrList(ds) == [i \in 1..Len(ds) |-> PyStr(ds[i])]

(***************************************************************************)
(* More literals: queries, content strategies, raw hits, pages             *)
(***************************************************************************)

S_site == <<"s","i","t","e",":">>
Q_cuda == <<"c","u","d","a">>
S_video_suffix == <<" ","v","i","d","e","o"," ","O","R"," ","t","u","t","o","r","i","a","l">>
S_course_suffix == <<" ","c","o","u","r","s","e"," ","O","R"," ","t","r","a","i","n","i","n","g"," ","O","R"," ","c","e","r","t","i","f","i","c","a","t","i","o","n">>
S_tutorial_suffix == <<" ","t","u","t","o","r","i","a","l"," ","O","R"," ","g","u","i","d","e"," ","O","R"," ","h","o","w","-","t","o">>
S_webinar_suffix == <<" ","w","e","b","i","n","a","r"," ","O","R"," ","e","v","e","n","t"," ","O","R"," ","s","e","s","s","i","o","n">>
K_youtube == <<"y","o","u","t","u","b","e">>
K_video == <<"v","i","d","e","o">>
K_watch == <<"w","a","t","c","h">>
K_tutorial == <<"t","u","t","o","r","i","a","l">>
K_course == <<"c","o","u","r","s","e">>
K_training == <<"t","r","a","i","n","i","n","g">>
K_dli == <<"d","l","i">>
K_certification == <<"c","e","r","t","i","f","i","c","a","t","i","o","n">>
K_learn == <<"l","e","a","r","n">>
K_guide == <<"g","u","i","d","e">>
K_how_to == <<"h","o","w","-","t","o">>
K_getting_started == <<"g","e","t","t","i","n","g"," ","s","t","a","r","t","e","d">>
K_webinar == <<"w","e","b","i","n","a","r">>
K_event == <<"e","v","e","n","t">>
K_session == <<"s","e","s","s","i","o","n">>
K_livestream == <<"l","i","v","e","s","t","r","e","a","m">>
K_blog == <<"b","l","o","g">>
K_article == <<"a","r","t","i","c","l","e">>
K_post == <<"p","o","s","t">>
S_search_error_for == <<"S","e","a","r","c","h"," ","e","r","r","o","r"," ","f","o","r"," ","'">>
S_on == <<"'"," ","o","n"," ">>
S_unavailable == <<"S","e","a","r","c","h"," ","t","e","m","p","o","r","a","r","i","l","y"," ","u","n","a","v","a","i","l","a","b","l","e","."," ","E","r","r","o","r",":"," ">>
M_query_required == <<"Q","u","e","r","y"," ","p","a","r","a","m","e","t","e","r"," ","i","s"," ","r","e","q","u","i","r","e","d">>
M_both_required == <<"B","o","t","h"," ","c","o","n","t","e","n","t","_","t","y","p","e"," ","a","n","d"," ","t","o","p","i","c"," ","p","a","r","a","m","e","t","e","r","s"," ","a","r","e"," ","r","e","q","u","i","r","e","d">>
M_unknown_tool == <<"U","n","k","n","o","w","n"," ","t","o","o","l",":"," ">>
N_list_everything == <<"l","i","s","t","_","e","v","e","r","y","t","h","i","n","g">>
E_engine == <<"e","n","g","i","n","e"," ","e","r","r","o","r">>

\* Raw hits of the search engine (ddgs): title, href, body
T_video == <<"C","U","D","A"," ","v","i","d","e","o">>
U_cuda == D_developer \o <<"c","u","d","a">>
B_watch == <<"W","a","t","c","h"," ","C","U","D","A">>
T_blog == <<"B","l","o","g"," ","p","o","s","t">>
U_post == D_blogs \o <<"p","o","s","t">>
B_article == <<"A","n"," ","a","r","t","i","c","l","e">>
T_tutor == <<"T","u","t","o","r">>
U_ad == S_https \o <<"d","u","c","k","d","u","c","k","g","o",".","c","o","m","/","y",".","j","s","?","a","d","_","d","o","m","a","i","n","=","w","y","z","a","n","t",".","c","o","m">>
B_ad == <<"A","d">>
U_x == D_docs \o <<"x">>

RawHit(title, href, body) == [title |-> title, href |-> href, body |-> body]
H_video == RawHit(T_video, U_cuda, B_watch)
H_blog == RawHit(T_blog, U_post, B_article)
H_ad == RawHit(T_tutor, U_ad, B_ad)
H_untitled == RawHit(<<>>, U_x, B_ad)

\* What the engine may answer to one query, before its max_results cap
EngineAnswers ==
    {<<>>, <<H_video>>, <<H_ad>>, <<H_blog, H_video>>, <<H_untitled, H_blog>>}

\* Extracted page texts the page fetcher may return with status 200
P_match == <<"I","n","t","r","o","."," ","W","a","t","c","h"," "," ","C","U","D","A"," ","n","o","w">>
P_other == <<"N","o","t","h","i","n","g">>

HttpResponse(kind, status, text) == [kind |-> kind, status |-> status, text |-> text]

\* client.get: raises (network error, timeout) or returns a status and a body
HttpOutcomes ==
    {HttpResponse("raise", 0, <<>>), HttpResponse("response", 404, <<>>),
     HttpResponse("response", 200, P_match), HttpResponse("response", 200, P_other)}

CT_video == K_video
CT_VIDEO == <<"V","I","D","E","O">>
CT_blog == K_blog
CT_podcast == <<"p","o","d","c","a","s","t">>

(***************************************************************************)
(* fetch_url_context                                                       *)
(***************************************************************************)

CONTEXT_CHARS == 200
POS_PREFIX == 50
HIGHLIGHT_PREFIX == 30

\* re.sub(r'\s+', ' ', s): every run of whitespace becomes one space
RECURSIVE CollapseWs(_)
CollapseWs(s) ==
    IF s = <<>> THEN <<>>
    ELSE IF Head(s) \in Whitespace
         THEN IF Len(s) > 1 /\ s[2] \in Whitespace THEN CollapseWs(Tail(s))
              ELSE <<" ">> \o CollapseWs(Tail(s))
         ELSE <<Head(s)>> \o CollapseWs(Tail(s))

Max(a, b) == IF a > b THEN a ELSE b
Min(a, b) == IF a < b THEN a ELSE b

\* the function with an empty string for `return snippet` when the status is not 200
fetch_url_context_NoFallback(response, snippet, context_chars) ==
    IF response.kind = "response" /\ response.status # 200 THEN <<>>
    ELSE snippet

fetch_url_context(response, snippet, context_chars) ==
    IF response.kind = "raise" THEN snippet
    ELSE IF response.status # 200 THEN snippet
    ELSE LET text == Strip(CollapseWs(response.text))
             snippet_clean == Lower(Strip(CollapseWs(snippet)))
             text_lower == Lower(text)
             pos == Find(text_lower, Slice(snippet_clean, 0, POS_PREFIX))
         IN  IF pos # -1
             THEN LET start == Max(0, pos - context_chars)
                      end == Min(Len(text), pos + Len(snippet) + context_chars)
                      context == (IF start > 0 THEN <<".", ".", ".">> ELSE <<>>)
                                 \o Slice(text, start, end)
                                 \o (IF end < Len(text) THEN <<".", ".", ".">> ELSE <<>>)
                      snippet_start == Find(Lower(context), Slice(snippet_clean, 0, HIGHLIGHT_PREFIX))
                      snippet_end == snippet_start + Len(snippet)
                  IN  IF snippet_start # -1
                      THEN Slice(context, 0, snippet_start) \o <<"*", "*">>
                           \o Slice(context, snippet_start, snippet_end) \o <<"*", "*">>
                           \o Slice(context, snippet_end, Len(context))
                      ELSE context
             ELSE snippet

(***************************************************************************)
(* search_nvidia_domain: one coroutine per domain                          *)
(***************************************************************************)

\* domain.replace('https://', '').replace('http://', '').rstrip('/')
CleanDomain(domain) == RStrip(RemoveAll(RemoveAll(domain, S_https), S_http), "/")

\* f"site:{clean_domain} {query}"
SearchQuery(clean_domain, query) == S_site \o clean_domain \o <<" ">> \o query

\* ddgs.text(search_query, max_results=max_results): at most max_results hits
EngineText(answer, max_results) == Slice(answer, 0, max_results)

SearchResult(title, url, snippet, domain) ==
    [title |-> title, url |-> url, snippet |-> snippet, domain |-> domain]

\* the fallback entry appended when the search raises
Placeholder(query, clean_domain, e) ==
    SearchResult(S_search_error_for \o query \o S_on \o clean_domain,
                 S_https \o clean_domain,
                 S_unavailable \o e,
                 clean_domain)

\* the loop without its `continue`: every hit is fetched
SkipNothing(hits) == hits

\* the loop's `if not title or not url: continue`, up to the next hit that is fetched
RECURSIVE SkipUnusable(_)
SkipUnusable(hits) ==
    IF hits = <<>> THEN <<>>
    ELSE IF Head(hits).title = <<>> \/ Head(hits).href = <<>> THEN SkipUnusable(Tail(hits))
    ELSE hits

\* one search_nvidia_domain coroutine: its argument, where it stands ("new",
\* "engine" inside ddgs.text, "fetch" at the await, "done", "raised") and its locals
Task(domain, st, clean, search_results, pending, results) ==
    [domain |-> domain, st |-> st, clean |-> clean, search_results |-> search_results,
     pending |-> pending, results |-> results]

NewTask(domain) == Task(domain, "new", <<>>, <<>>, <<>>, <<>>)

\* the coroutine left where it stands: the call it waits for never answers
ProceedNever(task, hits, results) == task

\* the coroutine between two awaits: done when no hit is left to fetch
Proceed(task, hits, results) ==
    LET rest == SkipUnusable(hits)
    IN  Task(task.domain, IF rest = <<>> THEN "done" ELSE "fetch", task.clean,
             task.search_results, rest, results)

(***************************************************************************)
(* search_all_domains and discover_content                                 *)
(***************************************************************************)

\* the domains the list comprehension iterates: DEFAULT_DOMAINS for None,
\* the elements of a list, the characters of a str
DomainEntries(domains, defaults) ==
    IF domains.t = "none" THEN StrList(defaults)
    ELSE IF domains.t = "list" THEN domains.l
    ELSE [i \in 1..Len(domains.s) |-> PyStr(<<domains.s[i]>>)]

\* the loop with `break` for `continue`: the first exception ends the merge
RECURSIVE MergeResultsAbort(_)
MergeResultsAbort(domain_results) ==
    IF domain_results = <<>> THEN <<>>
    ELSE IF Head(domain_results).st = "raised" THEN <<>>
    ELSE Head(domain_results).results \o MergeResultsAbort(Tail(domain_results))

\* the loop over gather's values: an exception is skipped, a list is appended
RECURSIVE MergeResults(_)
MergeResults(domain_results) ==
    IF domain_results = <<>> THEN <<>>
    ELSE IF Head(domain_results).st = "raised" THEN MergeResults(Tail(domain_results))
    ELSE Head(domain_results).results \o MergeResults(Tail(domain_results))

ContentStrategy(query, domains, keywords) ==
    [query |-> query, domains |-> domains, keywords |-> keywords]

\* content_strategies.get(key, <generic strategy>)
content_strategies(key, content_type, topic, defaults) ==
        IF key = K_video
        THEN ContentStrategy(topic \o S_video_suffix, <<D_developer, D_blogs>>,
                             <<K_youtube, K_video, K_watch, K_tutorial>>)
        ELSE IF key = K_course
        THEN ContentStrategy(topic \o S_course_suffix, <<D_developer>>,
                             <<K_course, K_training, K_dli, K_certification, K_learn>>)
        ELSE IF key = K_tutorial
        THEN ContentStrategy(topic \o S_tutorial_suffix, <<D_developer, D_docs>>,
                             <<K_tutorial, K_guide, K_how_to, K_getting_started>>)
        ELSE IF key = K_webinar
        THEN ContentStrategy(topic \o S_webinar_suffix, <<D_developer, D_blogs>>,
                             <<K_webinar, K_event, K_session, K_livestream>>)
        ELSE IF key = K_blog
        THEN ContentStrategy(topic, <<D_blogs>>, <<K_blog, K_article, K_post>>)
        ELSE ContentStrategy(topic \o <<" ">> \o content_type, defaults, <<>>)

\* the lookup by the content type as given, not lower-cased
StrategyCaseSensitive(content_type, topic, defaults) ==
    content_strategies(content_type, content_type, topic, defaults)

\* strategy = content_strategies.get(content_type.lower(), ...)
Strategy(content_type, topic, defaults) ==
    content_strategies(Lower(content_type), content_type, topic, defaults)

WEIGHT_TITLE == 3
WEIGHT_SNIPPET == 2
WEIGHT_URL == 1
WEIGHT_SUM == 6
SCORE_SCALE == 100

\* raw_score: 3 per keyword in the title, 2 in the snippet, 1 in the url
RECURSIVE RawScore(_, _)
RawScore(result, keywords) ==
    IF keywords = <<>> THEN 0
    ELSE (IF Contains(Lower(result.title), Head(keywords)) THEN WEIGHT_TITLE ELSE 0)
         + (IF Contains(Lower(result.snippet), Head(keywords)) THEN WEIGHT_SNIPPET ELSE 0)
         + (IF Contains(Lower(result.url), Head(keywords)) THEN WEIGHT_URL ELSE 0)
         + RawScore(result, Tail(keywords))

\* the quotient rounded to the nearest integer instead of truncated
NormalizedScoreRounded(raw_score, max_possible_score) ==
    IF max_possible_score > 0
    THEN (2 * raw_score * SCORE_SCALE + max_possible_score) \div (2 * max_possible_score)
    ELSE 0

\* int((raw_score / max_possible_score) * 100); the float product truncates to
\* the integer quotient for every raw_score <= max_possible_score in {18, 24, 30}
NormalizedScore(raw_score, max_possible_score) ==
    IF max_possible_score > 0 THEN (raw_score * SCORE_SCALE) \div max_possible_score ELSE 0

\* result["relevance_score"] = normalized_score
Rescore(result, keywords) ==
    [title |-> result.title, url |-> result.url, snippet |-> result.snippet,
     domain |-> result.domain,
     relevance_score |-> NormalizedScore(RawScore(result, keywords), Len(keywords) * WEIGHT_SUM)]

RescoreAll(results, keywords) == [i \in 1..Len(results) |-> Rescore(results[i], keywords)]

\* the insertion with > for >=: a later result overtakes an earlier equal one
InsertDescTiesReversed(sorted, r) ==
    LET ahead == {i \in 1..Len(sorted) : sorted[i].relevance_score > r.relevance_score}
        n == Cardinality(ahead)
    IN  SubSeq(sorted, 1, n) \o <<r>> \o SubSeq(sorted, n + 1, Len(sorted))

\* list.sort(key=relevance_score, reverse=True): stable, equal keys keep their order
RECURSIVE InsertDesc(_, _)
InsertDesc(sorted, r) ==
    IF sorted = <<>> THEN <<r>>
    ELSE IF Head(sorted).relevance_score >= r.relevance_score
         THEN <<Head(sorted)>> \o InsertDesc(Tail(sorted), r)
         ELSE <<r>> \o sorted

RECURSIVE SortByScoreDesc(_)
SortByScoreDesc(rs) ==
    IF rs = <<>> THEN <<>>
    ELSE InsertDesc(SortByScoreDesc(SubSeq(rs, 1, Len(rs) - 1)), rs[Len(rs)])

\* what discover_content returns from the aggregated results
DiscoverRanking(results, keywords, max_results) ==
    Slice(SortByScoreDesc(RescoreAll(results, keywords)), 0, max_results)

(***************************************************************************)
(* Inputs of call_tool                                                     *)
(***************************************************************************)

MAX_QUERY_LENGTH == 500
DEFAULT_MAX_RESULTS_PER_DOMAIN == 3
DEFAULT_MAX_RESULTS == 5

Arguments(query, domains, max_results_per_domain, content_type, topic, max_results) ==
    [query |-> query, domains |-> domains, max_results_per_domain |-> max_results_per_domain,
     content_type |-> content_type, topic |-> topic, max_results |-> max_results]

QueryArgs ==
    {Absent, PyStr(<<>>), PyStr(Q_cuda),
     PyStr(Repeat("A", MAX_QUERY_LENGTH)), PyStr(Repeat("A", MAX_QUERY_LENGTH + 1))}

DomainsArgs ==
    {Absent, PyNone,
     PyList(<<PyStr(D_developer)>>),
     PyList(<<PyStr(D_docs_cuda)>>),
     PyList(<<PyStr(D_google), PyStr(D_developer)>>),
     PyList(<<PyStr(D_developer), PyNone, PyStr(D_blogs)>>),
     PyStr(S_docs)}

MaxResultsArgs == {Absent, PyInt(1), PyInt(100)}

ContentTypeArgs == {Absent, PyStr(CT_video), PyStr(CT_VIDEO), PyStr(CT_blog), PyStr(CT_podcast)}

\* The modelled calls vary one argument at a time around a plain call
SearchArguments ==
    {Arguments(PyStr(Q_cuda), d, Absent, Absent, Absent, Absent) : d \in DomainsArgs}
    \cup {Arguments(q, PyList(<<PyStr(D_developer)>>), Absent, Absent, Absent, Absent) :
            q \in QueryArgs}
    \cup {Arguments(PyStr(Q_cuda), PyList(<<PyStr(D_developer)>>), m, Absent, Absent, Absent) :
            m \in MaxResultsArgs}

DiscoverArguments ==
    {Arguments(Absent, Absent, Absent, c, PyStr(Q_cuda), Absent) : c \in ContentTypeArgs}
    \cup {Arguments(Absent, Absent, Absent, PyStr(CT_blog), t, Absent) : t \in QueryArgs}
    \cup {Arguments(Absent, Absent, Absent, PyStr(CT_video), PyStr(Q_cuda), m) :
            m \in MaxResultsArgs}

ToolNames == {"search_nvidia", "discover_nvidia_content", "list_everything"}

(***************************************************************************)
(* State                                                                   *)
(***************************************************************************)

MaxTicks == 2
TickMs == 100
MaxTotalHits == 2

VARIABLES
    custom_domains,     \* os.getenv("MCP_NVIDIA_DOMAINS"), the empty string for unset
    checked,            \* how many entries of raw_domains the import loop has validated
    validated_domains,  \* the entries it kept
    imported,           \* the module body has run
    extraction,         \* a keyword extraction: its text, its result, the result again
    DEFAULT_DOMAINS,  \* the module global, fixed at import
    clock,            \* milliseconds on the process clock
    pc,               \* "idle", "searching", "returned", "raised"
    req,              \* the tool call being served: name and arguments
    frame,            \* locals of call_tool / discover_content across the await
    tasks,            \* the coroutines gathered by search_all_domains, in order
    arrival,          \* the indices of the finished coroutines, in the order they finished
    engineLog,        \* the ddgs.text calls issued for this request
    callTimes,        \* when the last of them was issued, and the least gap so far
    all_results,      \* what search_all_domains returned
    response          \* what call_tool returned or raised

importVars == <<custom_domains, checked, validated_domains, imported>>

vars ==
    <<importVars, extraction, DEFAULT_DOMAINS, clock, pc, req, frame, tasks, arrival,
      engineLog, callTimes, all_results, response>>

raw_domains == RawDomains(custom_domains)

NoArguments == Arguments(Absent, Absent, Absent, Absent, Absent, Absent)
NoCalls == [last |-> -1, min_gap |-> -1]
Extraction(text, passes, first, again) ==
    [text |-> text, passes |-> passes, first |-> first, again |-> again]
NoExtraction == Extraction(<<>>, 0, {}, {})
NoFrame == [tool |-> "", query |-> <<>>, max_results |-> 0, keywords |-> <<>>]
Response(kind, message, results) == [kind |-> kind, message |-> message, results |-> results]

\* nothing has been asked of the server yet
Idle ==
    /\ clock = 0
    /\ pc = "idle"
    /\ req = [name |-> "", arguments |-> NoArguments]
    /\ frame = NoFrame
    /\ tasks = <<>>
    /\ arrival = <<>>
    /\ engineLog = <<>>
    /\ callTimes = NoCalls
    /\ all_results = <<>>
    /\ response = Response("none", <<>>, <<>>)

\* the server after import, for each modelled value of the environment variable
Init ==
    /\ custom_domains \in EnvValues
    /\ checked = Len(raw_domains)
    /\ validated_domains = SelectSeq(raw_domains, validate_nvidia_domain)
    /\ imported = TRUE
    /\ DEFAULT_DOMAINS = ResolveDefaultDomains(custom_domains)
    /\ extraction = NoExtraction
    /\ Idle

\* time passes; only the engine calls read the clock, so it is advanced
\* where a call can still follow
Tick ==
    /\ pc = "searching"
    /\ \E k \in 1..Len(tasks) : tasks[k].st = "new"
    /\ clock < MaxTicks * TickMs
    /\ clock' = clock + TickMs
    /\ UNCHANGED <<importVars, extraction, DEFAULT_DOMAINS, pc, req, frame, tasks, arrival,
                   engineLog, callTimes, all_results, response>>

Raise(name, arguments, message) ==
    /\ pc' = "raised"
    /\ req' = [name |-> name, arguments |-> arguments]
    /\ frame' = NoFrame
    /\ tasks' = <<>>
    /\ arrival' = <<>>
    /\ engineLog' = <<>>
    /\ callTimes' = NoCalls
    /\ all_results' = <<>>
    /\ response' = Response("error", message, <<>>)

\* search_all_domains up to its await of gather: one coroutine per domain
Dispatch(name, arguments, query, domains, max_results, keywords) ==
    /\ pc' = "searching"
    /\ req' = [name |-> name, arguments |-> arguments]
    /\ frame' = [tool |-> name, query |-> query, max_results |-> max_results,
                 keywords |-> keywords]
    /\ tasks' = LET entries == DomainEntries(domains, DEFAULT_DOMAINS)
                IN  [i \in 1..Len(entries) |-> NewTask(entries[i])]
    /\ arrival' = <<>>
    /\ engineLog' = <<>>
    /\ callTimes' = NoCalls
    /\ all_results' = <<>>
    /\ response' = Response("none", <<>>, <<>>)

\* the branch without its `if not query` check
CallSearchNvidiaUnchecked(arguments) ==
    Dispatch("search_nvidia", arguments, Get(arguments.query).s, Get(arguments.domains),
             GetDefault(arguments.max_results_per_domain,
                        PyInt(DEFAULT_MAX_RESULTS_PER_DOMAIN)).n,
             <<>>)

\* call_tool, branch name == "search_nvidia"
CallSearchNvidia(arguments) ==
    LET query == Get(arguments.query)
        domains == Get(arguments.domains)
        max_results_per_domain ==
            GetDefault(arguments.max_results_per_domain, PyInt(DEFAULT_MAX_RESULTS_PER_DOMAIN))
    IN  IF Falsy(query)
        THEN Raise("search_nvidia", arguments, M_query_required)
        ELSE Dispatch("search_nvidia", arguments, query.s, domains,
                      max_results_per_domain.n, <<>>)

\* call_tool, branch name == "discover_nvidia_content", into discover_content
CallDiscoverNvidiaContent(arguments) ==
    LET content_type == Get(arguments.content_type)
        topic == Get(arguments.topic)
        max_results == GetDefault(arguments.max_results, PyInt(DEFAULT_MAX_RESULTS))
    IN  IF Falsy(content_type) \/ Falsy(topic)
        THEN Raise("discover_nvidia_content", arguments,
                   M_both_required)
        ELSE LET strategy == Strategy(content_type.s, topic.s, DEFAULT_DOMAINS)
             IN  Dispatch("discover_nvidia_content", arguments, strategy.query,
                          PyList(StrList(strategy.domains)), max_results.n,
                          strategy.keywords)

\* call_tool(name, arguments)
CallTool ==
    /\ pc = "idle"
    /\ \E name \in ToolNames :
          IF name = "search_nvidia"
          THEN \E arguments \in SearchArguments : CallSearchNvidia(arguments)
          ELSE IF name = "discover_nvidia_content"
          THEN \E arguments \in DiscoverArguments : CallDiscoverNvidiaContent(arguments)
          ELSE Raise(name, NoArguments, M_unknown_tool \o N_list_everything)
    /\ UNCHANGED <<importVars, extraction, DEFAULT_DOMAINS, clock>>

\* the finished coroutines after coroutine k has run up to its next await
Arrived(order, ts, k) == IF ts[k].st \in {"done", "raised"} THEN Append(order, k) ELSE order

\* the values in the order the coroutines finished, as asyncio.as_completed yields them
GatherValuesAsCompleted(ts, order) == [i \in 1..Len(order) |-> ts[order[i]]]

\* await asyncio.gather(*tasks, return_exceptions=True): the values in the
\* order of the awaitables
GatherValues(ts, order) == ts

FirstNew == CHOOSE k \in 1..Len(tasks) : tasks[k].st = "new" /\ \A j \in 1..(k - 1) : tasks[j].st # "new"

HitsServed(log) == IF log = <<>> THEN 0 ELSE log[Len(log)].served

EngineCall(clean_domain, max_results, n) ==
    [domain |-> clean_domain, max_results |-> max_results,
     served |-> HitsServed(engineLog) + n]

\* the call record after one more engine call at time now
CallAt(times, now) ==
    [last |-> now,
     min_gap |-> IF times.last = -1 THEN -1
                 ELSE IF times.min_gap = -1 THEN now - times.last
                 ELSE Min(times.min_gap, now - times.last)]

\* ddgs.text is an ordinary call, not an await: from the call to its return
\* the coroutine holds the thread of the event loop
EventLoopBlocked == \E j \in 1..Len(tasks) : tasks[j].st = "engine"

\* the event loop can give the next coroutine of gather its first step
CanStartTask ==
    /\ pc = "searching"
    /\ \E k \in 1..Len(tasks) : tasks[k].st = "new"
    /\ ~EventLoopBlocked

\* search_nvidia_domain from its start into the call of ddgs.text
StartTask ==
    /\ CanStartTask
    /\ LET k == FirstNew
           task == tasks[k]
       IN  IF task.domain.t # "str"
           THEN \* domain.replace raises; the handler reads the unbound clean_domain
                /\ tasks' = [tasks EXCEPT ![k].st = "raised"]
                /\ UNCHANGED <<engineLog, callTimes>>
           ELSE LET clean_domain == CleanDomain(task.domain.s)
                IN  /\ tasks' = [tasks EXCEPT ![k] =
                            Task(task.domain, "engine", clean_domain, <<>>, <<>>, <<>>)]
                    /\ engineLog' = Append(engineLog,
                            EngineCall(clean_domain, frame.max_results, 0))
                    /\ callTimes' = CallAt(callTimes, clock)
    /\ arrival' = Arrived(arrival, tasks', FirstNew)
    /\ UNCHANGED <<importVars, extraction, DEFAULT_DOMAINS, clock, pc, req, frame, all_results,
                   response>>

\* the blocking call of some coroutine can return
CanEngineReturn == pc = "searching" /\ EventLoopBlocked

\* ddgs.text returns or raises; the coroutine runs on to its first await or its return
EngineReturn ==
    /\ CanEngineReturn
    /\ \E k \in 1..Len(tasks) :
          /\ tasks[k].st = "engine"
          /\ LET task == tasks[k]
             IN  \/ \* ddgs raises: the fallback entry
                    /\ tasks' = [tasks EXCEPT ![k] =
                           Task(task.domain, "done", task.clean, <<>>, <<>>,
                                <<Placeholder(frame.query, task.clean, E_engine)>>)]
                    /\ UNCHANGED engineLog
                 \/ \E answer \in EngineAnswers :
                    LET search_results == EngineText(answer, frame.max_results)
                    IN  /\ HitsServed(engineLog) + Len(search_results) <= MaxTotalHits
                        /\ tasks' = [tasks EXCEPT ![k] =
                               Proceed(Task(task.domain, "engine", task.clean,
                                            search_results, <<>>, <<>>),
                                       search_results, <<>>)]
                        /\ engineLog' = [engineLog EXCEPT ![Len(engineLog)].served =
                                            @ + Len(search_results)]
          /\ arrival' = Arrived(arrival, tasks', k)
    /\ UNCHANGED <<importVars, extraction, DEFAULT_DOMAINS, clock, pc, req, frame, callTimes,
                   all_results, response>>

\* every coroutine has had its first step and one of them waits at its await
CanFetchComplete ==
    /\ pc = "searching"
    /\ \A j \in 1..Len(tasks) : tasks[j].st \notin {"new", "engine"}
    /\ \E k \in 1..Len(tasks) : tasks[k].st = "fetch"

\* the awaited fetch_url_context returns: the hit is appended, the loop goes on
FetchComplete ==
    /\ CanFetchComplete
    /\ \E k \in 1..Len(tasks), http \in HttpOutcomes :
          /\ tasks[k].st = "fetch"
          /\ LET task == tasks[k]
                 hit == Head(task.pending)
                 enhanced_snippet == fetch_url_context(http, hit.body, CONTEXT_CHARS)
             IN  tasks' = [tasks EXCEPT ![k] =
                     Proceed(task, Tail(task.pending),
                             Append(task.results,
                                    SearchResult(hit.title, hit.href, enhanced_snippet,
                                                 task.clean)))]
          /\ arrival' = Arrived(arrival, tasks', k)
    /\ UNCHANGED <<importVars, extraction, DEFAULT_DOMAINS, clock, pc, req, frame, engineLog,
                   callTimes, all_results, response>>

\* every coroutine has returned or raised
CanGather ==
    /\ pc = "searching"
    /\ \A j \in 1..Len(tasks) : tasks[j].st \in {"done", "raised"}

\* gather completes; search_all_domains, then discover_content, then call_tool return
Gather ==
    /\ CanGather
    /\ all_results' = MergeResults(GatherValues(tasks, arrival))
    /\ response' =
          IF frame.tool = "search_nvidia"
          THEN Response("text", <<>>, all_results')
          ELSE Response("text", <<>>,
                        DiscoverRanking(all_results', frame.keywords, frame.max_results))
    /\ pc' = "returned"
    /\ UNCHANGED <<importVars, extraction, DEFAULT_DOMAINS, clock, req, frame, tasks, arrival,
                   engineLog, callTimes>>

\* the answer or the error has left call_tool: its locals are gone, the
\* server waits for the next call
Respond ==
    /\ pc \in {"returned", "raised"}
    /\ pc' = "idle"
    /\ req' = [name |-> "", arguments |-> NoArguments]
    /\ frame' = NoFrame
    /\ tasks' = <<>>
    /\ arrival' = <<>>
    /\ engineLog' = <<>>
    /\ callTimes' = NoCalls
    /\ all_results' = <<>>
    /\ response' = Response("none", <<>>, <<>>)
    /\ UNCHANGED <<importVars, extraction, DEFAULT_DOMAINS, clock>>

\* one step of the event loop while call_tool awaits: a coroutine that is ready runs
EventLoopStep == StartTask \/ EngineReturn \/ FetchComplete \/ Gather

Next == CallTool \/ EventLoopStep \/ Respond

Spec == Init /\ [][Next]_vars

\* the same program on a clock that advances between its steps
NextTimed == Next \/ Tick

SpecTimed == Init /\ [][NextTimed]_vars

(***************************************************************************)
(* The module body at import: the loop that validates the override         *)
(***************************************************************************)

InitImport ==
    /\ custom_domains \in ImportEnvValues
    /\ checked = 0
    /\ validated_domains = <<>>
    /\ imported = FALSE
    /\ DEFAULT_DOMAINS = BUILTIN_DEFAULT_DOMAINS
    /\ extraction = NoExtraction
    /\ Idle

serving ==
    <<clock, pc, req, frame, tasks, arrival, engineLog, callTimes, all_results, response>>

\* one iteration of `for domain in raw_domains`
ValidateEntry ==
    /\ ~imported
    /\ checked < Len(raw_domains)
    /\ LET domain == raw_domains[checked + 1]
       IN  validated_domains' =
               IF validate_nvidia_domain(domain) THEN Append(validated_domains, domain)
               ELSE validated_domains
    /\ checked' = checked + 1
    /\ UNCHANGED <<custom_domains, imported, extraction, DEFAULT_DOMAINS, serving>>

\* after the loop: the override replaces the defaults, or the warning
FinishImport ==
    /\ ~imported
    /\ checked = Len(raw_domains)
    /\ DEFAULT_DOMAINS' = OverrideDefaults(validated_domains, DEFAULT_DOMAINS)
    /\ imported' = TRUE
    /\ UNCHANGED <<custom_domains, checked, validated_domains, extraction, serving>>

NextImport == ValidateEntry \/ FinishImport

SpecImport == InitImport /\ [][NextImport]_vars

(***************************************************************************)
(* Parts of the design that server.py does not contain, from the design    *)
(* document and the tests: the ad filter, the keyword extractor, the       *)
(* relevance scorer, and the limits of the request validation              *)
(***************************************************************************)

MIN_INTERVAL_MS == 200
MIN_RELEVANCE_SCORE == 33
MAX_RESULTS_CAP == 10

M_too_long == <<"t","o","o"," ","l","o","n","g">>
M_must_be_list == <<"d","o","m","a","i","n","s"," ","m","u","s","t"," ","b","e"," ","a"," ","l","i","s","t">>
M_invalid_domains == <<"I","n","v","a","l","i","d"," ","d","o","m","a","i","n","s"," ","d","e","t","e","c","t","e","d">>
AD_domain == <<"a","d","_","d","o","m","a","i","n">>
AD_provider == <<"a","d","_","p","r","o","v","i","d","e","r">>
AD_type == <<"a","d","_","t","y","p","e">>
AD_url == <<"a","d","u","r","l">>
AD_click == <<"a","d","c","l","i","c","k">>

AdParamNames == {AD_domain, AD_provider, AD_type, AD_url, AD_click}

\* the query string of a url: after the first "?", before a "#"
UrlQuery(url) ==
    LET k == Find(url, <<"?">>)
    IN  IF k = -1 THEN <<>> ELSE Before(Slice(url, k + 1, Len(url)), {"#"})

\* is_ad_url: the url carries one of the ad query parameters
is_ad_url(url) ==
    LET params == Split(UrlQuery(url), "&")
    IN  \E i \in 1..Len(params) : Before(params[i], {"="}) \in AdParamNames

Stopwords ==
    {<<"t","h","e">>, <<"i","s">>, <<"h","o","w">>, <<"t","o">>, <<"f","o","r">>,
     <<"d","o","e","s">>, <<"i","t">>, <<"w","h","a","t">>, <<"a","n","d">>, <<"o","r">>}

Digits == {"0","1","2","3","4","5","6","7","8","9"}

IsWordChar(c) == c \in Letters \cup Digits \cup Whitespace

\* the stopwords dropped before the punctuation is stripped
extract_keywords_StopwordsFirst(text) ==
    LET words == Split(CollapseWs(Lower(text)), " ")
        kept == {words[i] : i \in 1..Len(words)} \ Stopwords
    IN  {SelectSeq(w, IsWordChar) : w \in kept} \ {<<>>}

\* extract_keywords: lower-case, strip punctuation, split on whitespace, drop stopwords
extract_keywords(text) ==
    LET words == Split(CollapseWs(SelectSeq(Lower(text), IsWordChar)), " ")
    IN  {words[i] : i \in 1..Len(words)} \ (Stopwords \cup {<<>>})

RECURSIVE SetToSeq(_)
SetToSeq(S) == IF S = {} THEN <<>> ELSE LET x == CHOOSE x \in S : TRUE IN <<x>> \o SetToSeq(S \ {x})

\* round(a / b) for b > 0, halves to the even neighbour
Round(a, b) ==
    LET q == a \div b
        r == a % b
    IN  IF 2 * r < b THEN q
        ELSE IF 2 * r > b THEN q + 1
        ELSE IF q % 2 = 0 THEN q ELSE q + 1

\* calculate_search_relevance: the weighted match of the query's keywords, 0..100
calculate_search_relevance(result, query) ==
    LET keywords == SetToSeq(extract_keywords(query))
        max_possible == Len(keywords) * WEIGHT_SUM
    IN  IF max_possible > 0 THEN Round(SCORE_SCALE * RawScore(result, keywords), max_possible)
        ELSE 0

(***************************************************************************)
(* The keyword extractor applied to query texts, and again to its output   *)
(***************************************************************************)

W_how == <<"H","o","w">>
W_to == <<"t","o">>
W_install == <<"i","n","s","t","a","l","l">>
W_cuda_q == <<"C","U","D","A","?">>
W_for == <<"f","o","r">>
W_deep == <<"d","e","e","p">>
W_learning == <<"l","e","a","r","n","i","n","g">>
W_the == <<"t","h","e">>
W_t_o == <<"t",".","o">>
W_gpu == <<"G","P","U">>

\* "How to install CUDA for deep learning"
T_install_cuda ==
    W_how \o <<" ">> \o W_to \o <<" ">> \o W_install \o <<" ">> \o <<"C","U","D","A">> \o <<" ">>
        \o W_for \o <<" ">> \o W_deep \o <<" ">> \o W_learning
\* "the and or"
T_stopwords == <<"t","h","e"," ","a","n","d"," ","o","r">>
\* "What is CUDA? How does it help?"
T_questions == <<"W","h","a","t"," ","i","s"," ","C","U","D","A","?"," ","H","o","w"," ","d","o","e","s"," ","i","t"," ","h","e","l","p","?">>

QueryWords == {<<>>, W_how, W_to, W_install, W_cuda_q, W_the, W_t_o, W_gpu}

MaxWords == 2

\* " ".join(words)
RECURSIVE JoinSpace(_)
JoinSpace(words) ==
    IF words = <<>> THEN <<>>
    ELSE IF Len(words) = 1 THEN words[1]
    ELSE words[1] \o <<" ">> \o JoinSpace(Tail(words))

QueryTexts ==
    {T_install_cuda, T_stopwords, T_questions}
        \cup {JoinSpace(ws) : ws \in UNION {[1..n -> QueryWords] : n \in 0..MaxWords}}

InitKeywords ==
    /\ custom_domains = <<>>
    /\ checked = 0
    /\ validated_domains = <<>>
    /\ imported = TRUE
    /\ DEFAULT_DOMAINS = BUILTIN_DEFAULT_DOMAINS
    /\ \E text \in QueryTexts : extraction = Extraction(text, 0, {}, {})
    /\ Idle

\* keywords = extract_keywords(text)
Extract ==
    /\ extraction.passes = 0
    /\ extraction' = [extraction EXCEPT !.passes = 1,
                                        !.first = extract_keywords(extraction.text)]
    /\ UNCHANGED <<importVars, DEFAULT_DOMAINS, serving>>

\* extract_keywords(" ".join(keywords))
ExtractAgain ==
    /\ extraction.passes = 1
    /\ extraction' = [extraction EXCEPT
                         !.passes = 2,
                         !.again = extract_keywords(JoinSpace(SetToSeq(extraction.first)))]
    /\ UNCHANGED <<importVars, DEFAULT_DOMAINS, serving>>

NextKeywords == Extract \/ ExtractAgain

SpecKeywords == InitKeywords /\ [][NextKeywords]_vars

(***************************************************************************)
(* Properties                                                              *)
(***************************************************************************)

HasScore(r) == "relevance_score" \in DOMAIN r

QueryOf(arguments) == Get(arguments.query)
TopicOf(arguments) == Get(arguments.topic)

\* a search_nvidia call that passes the required-argument and length checks
PlainSearchCall ==
    /\ req.name = "search_nvidia"
    /\ QueryOf(req.arguments).t = "str"
    /\ Len(QueryOf(req.arguments).s) \in 1..MAX_QUERY_LENGTH

InvalidEntry(e) == e.t = "str" /\ ~validate_nvidia_domain(e.s)

SuppliesInvalidDomain ==
    /\ PlainSearchCall
    /\ req.arguments.domains.t = "list"
    /\ \E i \in 1..Len(req.arguments.domains.l) : InvalidEntry(req.arguments.domains.l[i])

\* C1: a search_nvidia call whose domains list holds an entry the validator
\* rejects is refused as a whole with "Invalid domains detected", and no
\* domain search is dispatched for any entry.
C1_FailClosedDomains ==
    SuppliesInvalidDomain =>
        /\ response.kind = "error"
        /\ Contains(response.message, M_invalid_domains)
        /\ tasks = <<>>
        /\ engineLog = <<>>

\* C2: every domain an engine query is scoped to has a hostname that is
\* nvidia.com or ends in .nvidia.com.
C2_DomainAllowList ==
    \A i \in 1..Len(engineLog) : validate_nvidia_domain(engineLog[i].domain)

\* the number of results of the normally completed tasks before task k
RECURSIVE DoneBefore(_)
DoneBefore(k) ==
    IF k <= 1 THEN 0
    ELSE DoneBefore(k - 1)
         + (IF tasks[k - 1].st = "done" THEN Len(tasks[k - 1].results) ELSE 0)

\* C3: when some domain tasks raise, search_all_domains still returns, every
\* other task has run to completion, and the returned list holds exactly the
\* results of the tasks that completed, task by task, nothing of the failed ones.
C3_PartialFailureIsolation ==
    pc = "returned" =>
        /\ response.kind = "text"
        /\ \A k \in 1..Len(tasks) : tasks[k].st = (IF tasks[k].domain.t = "str" THEN "done" ELSE "raised")
        /\ Len(all_results) = DoneBefore(Len(tasks) + 1)
        /\ \A k \in 1..Len(tasks) :
              tasks[k].st = "done" =>
                  \A j \in 1..Len(tasks[k].results) :
                      all_results[DoneBefore(k) + j] = tasks[k].results[j]

\* a failed task between two tasks that returned results
C3_Witness ==
    /\ pc = "returned"
    /\ \E i, k, j \in 1..Len(tasks) :
          /\ i < k /\ k < j
          /\ tasks[k].st = "raised"
          /\ tasks[i].st = "done" /\ tasks[i].results # <<>>
          /\ tasks[j].st = "done" /\ tasks[j].results # <<>>
          /\ tasks[i].results # tasks[j].results

\* C4: any two consecutive engine calls are at least the minimum interval
\* (200 ms) apart on the clock.
C4_MinInterval ==
    callTimes.min_gap # -1 => callTimes.min_gap >= MIN_INTERVAL_MS

\* C5: no result returned by a domain search, by the aggregator or in a tool
\* response has a URL the ad filter flags.
C5_NoAdResults ==
    /\ \A k \in 1..Len(tasks) :
          tasks[k].st = "done" =>
              \A j \in 1..Len(tasks[k].results) : ~is_ad_url(tasks[k].results[j].url)
    /\ \A i \in 1..Len(all_results) : ~is_ad_url(all_results[i].url)
    /\ \A i \in 1..Len(response.results) : ~is_ad_url(response.results[i].url)

ScoreInRange(r) == HasScore(r) /\ r.relevance_score \in 0..SCORE_SCALE

\* C6: every result search_all_domains or discover_content hands to its
\* caller carries an integer relevance_score between 0 and 100.
C6_ScoreRange ==
    /\ \A i \in 1..Len(all_results) : ScoreInRange(all_results[i])
    /\ \A i \in 1..Len(response.results) : ScoreInRange(response.results[i])

\* C7: every result search_all_domains returns was scored against the query
\* and scores at least 33.
C7_MinRelevance ==
    \A i \in 1..Len(all_results) :
        /\ HasScore(all_results[i])
        /\ all_results[i].relevance_score = calculate_search_relevance(all_results[i], frame.query)
        /\ all_results[i].relevance_score >= MIN_RELEVANCE_SCORE

\* the first position of r in the merge of the completed tasks' results
MergePosition(r) ==
    LET merged == MergeResults(tasks)
    IN  CHOOSE i \in 1..Len(merged) :
            /\ merged[i].title = r.title /\ merged[i].url = r.url
            /\ \A j \in 1..(i - 1) : ~(merged[j].title = r.title /\ merged[j].url = r.url)

\* C8: the list search_all_domains returns is in non-increasing order of
\* relevance_score, equal scores in merge order.
C8_AggregatorOrdering ==
    /\ \A i \in 1..Len(all_results) : HasScore(all_results[i])
    /\ \A i, j \in 1..Len(all_results) :
          i < j =>
              /\ all_results[i].relevance_score >= all_results[j].relevance_score
              /\ all_results[i].relevance_score = all_results[j].relevance_score
                    => MergePosition(all_results[i]) <= MergePosition(all_results[j])

\* the query of a search_nvidia call or the topic of a discover call, when a string
CheckedText ==
    IF req.name = "search_nvidia" THEN QueryOf(req.arguments)
    ELSE IF req.name = "discover_nvidia_content" /\ ~Falsy(Get(req.arguments.content_type))
    THEN TopicOf(req.arguments)
    ELSE PyNone

SaysTooLong == response.kind = "error" /\ Contains(Lower(response.message), M_too_long)

\* C9: a query or topic of more than 500 characters is refused with a message
\* containing "too long" and nothing is searched; one of at most 500 is not
\* refused for its length.
C9_LengthValidation ==
    CheckedText.t = "str" =>
        IF Len(CheckedText.s) > MAX_QUERY_LENGTH
        THEN SaysTooLong /\ tasks = <<>> /\ engineLog = <<>>
        ELSE ~SaysTooLong

\* C10: whatever max_results the caller passes, no domain search is asked for
\* more than 10 hits, and the call still succeeds.
C10_ResultCap ==
    /\ pc = "searching" => frame.max_results <= MAX_RESULTS_CAP
    /\ \A i \in 1..Len(engineLog) : engineLog[i].max_results <= MAX_RESULTS_CAP
    /\ \A k \in 1..Len(tasks) : Len(tasks[k].results) <= MAX_RESULTS_CAP
    /\ pc = "returned" => response.kind = "text"

SuppliesNonListDomains ==
    /\ PlainSearchCall
    /\ req.arguments.domains.t \notin {"absent", "none", "list"}

\* the domains the dispatched tasks were created for, in order
TaskDomains == [k \in 1..Len(tasks) |-> tasks[k].domain]

\* C11: a search_nvidia call whose domains argument is present and not a list
\* is refused with "domains must be a list" and nothing is searched; with
\* domains absent or None the call is dispatched over the default domains.
C11_DomainsTypeCheck ==
    /\ SuppliesNonListDomains =>
          /\ response.kind = "error"
          /\ Contains(response.message, M_must_be_list)
          /\ tasks = <<>>
          /\ engineLog = <<>>
    /\ (PlainSearchCall /\ Get(req.arguments.domains).t = "none") =>
          /\ pc \in {"searching", "returned"}
          /\ TaskDomains = StrList(DEFAULT_DOMAINS)

\* the text after the last c of s, else all of s
AfterLast(s, c) ==
    LET ds == {k \in 1..Len(s) : s[k] = c}
    IN  IF ds = {} THEN s ELSE Slice(s, CHOOSE k \in ds : \A j \in ds : j <= k, Len(s))

\* the host a URL names: its authority without user info and port, lower-cased;
\* for a URL without an authority, its first path segment
HostnameOf(domain) ==
    LET parsed == urlparse(domain)
    IN  Lower(IF parsed.netloc # <<>> THEN Before(AfterLast(parsed.netloc, "@"), {":"})
              ELSE Split(parsed.path, "/")[1])

IsNvidiaHost(hostname) == hostname = S_nvidia_com \/ EndsWith(hostname, S_dot_nvidia_com)

\* the import loop kept the entry
Kept(domain) == \E j \in 1..Len(validated_domains) : validated_domains[j] = domain

\* C12: the validator accepts an input exactly when its hostname, compared
\* case-insensitively, is nvidia.com or ends in .nvidia.com; a malformed
\* input is rejected, not raised on.
C12_ValidatorCorrect ==
    \A i \in 1..checked :
        Kept(raw_domains[i]) <=>
            (~UrlparseRaises(raw_domains[i]) /\ IsNvidiaHost(HostnameOf(raw_domains[i])))

\* the override entries the validator accepts, in the order they were listed
ValidOverrideEntries == SelectSeq(raw_domains, validate_nvidia_domain)

\* C13: the import never fails on an override (until it has run, its loop or
\* its last step can be taken); once it has run, the default
\* set is the accepted override entries in their order when there is one, the
\* built-in set otherwise, and in both cases it is non-empty and every member
\* passes the validator.
C13_OverrideResolution ==
    /\ ~imported => (checked < Len(raw_domains) \/ checked = Len(raw_domains))
    /\ imported =>
          /\ DEFAULT_DOMAINS =
                IF ValidOverrideEntries # <<>> THEN ValidOverrideEntries
                ELSE BUILTIN_DEFAULT_DOMAINS
          /\ DEFAULT_DOMAINS # <<>>
          /\ \A i \in 1..Len(DEFAULT_DOMAINS) : validate_nvidia_domain(DEFAULT_DOMAINS[i])

\* an override with a rejected entry before an accepted one has been resolved
C13_Witness ==
    /\ imported
    /\ Len(raw_domains) = 2
    /\ ~validate_nvidia_domain(raw_domains[1])
    /\ validate_nvidia_domain(raw_domains[2])
    /\ DEFAULT_DOMAINS = <<raw_domains[2]>>

IsPlaceholder(r) == MatchAt(r.title, S_search_error_for, 0) /\ MatchAt(r.snippet, S_unavailable, 0)

\* C14: no domain search ever ends by raising, whatever its domain argument;
\* one whose engine call failed returns the single "search unavailable"
\* entry for its domain and nothing else.
C14_FailSoft ==
    \A k \in 1..Len(tasks) :
        /\ tasks[k].st # "raised"
        /\ (tasks[k].st = "done" /\ \E j \in 1..Len(tasks[k].results) :
                                        IsPlaceholder(tasks[k].results[j])) =>
              /\ Len(tasks[k].results) = 1
              /\ tasks[k].results[1].domain = CleanDomain(tasks[k].domain.s)

DiscoverReturned == pc = "returned" /\ frame.tool = "discover_nvidia_content"

\* the Aggregator output with the scores discover_content gives it
Rescored == RescoreAll(all_results, frame.keywords)

\* the place of the i-th of the scored results in the ranking: one more than the
\* number of results with a higher score, or an equal score and an earlier place
Rank(scored, i) ==
    1 + Cardinality({j \in 1..Len(scored) :
            \/ scored[j].relevance_score > scored[i].relevance_score
            \/ /\ scored[j].relevance_score = scored[i].relevance_score
               /\ j < i})

\* C15: discover_content returns the first max_results results of the stable
\* descending sort of the re-scored Aggregator output: at most max_results
\* in all, in non-increasing score order, equal scores in Aggregator order.
C15_DiscoverRankingCap ==
    DiscoverReturned =>
        /\ Len(response.results) = Min(frame.max_results, Len(all_results))
        /\ LET scored == Rescored
           IN  \A i \in 1..Len(scored) :
                   LET rank == Rank(scored, i)
                   IN  rank <= frame.max_results => response.results[rank] = scored[i]
        /\ \A i, j \in 1..Len(response.results) :
              i < j => response.results[i].relevance_score >= response.results[j].relevance_score

\* a returned ranking that dropped a result for the cap, after the sort moved
\* a later result of the Aggregator to the front
C15_Witness ==
    /\ DiscoverReturned
    /\ Len(all_results) > frame.max_results
    /\ Len(response.results) = frame.max_results
    /\ response.results[1] # Rescored[1]

DiscoverDispatched == req.name = "discover_nvidia_content" /\ pc \in {"searching", "returned"}

KnownContentTypes == {K_video, K_course, K_tutorial, K_webinar, K_blog}

\* the strategy the dispatched search was built from
DispatchedStrategy == ContentStrategy(frame.query, TaskDomains, frame.keywords)

\* what the lookup owes a content type: for a known one, taken case-insensitively,
\* its table entry; for any other, the generic strategy with the given query
ExpectedStrategy(content_type, topic, generic_query) ==
    IF Lower(content_type) \in KnownContentTypes
    THEN LET entry == content_strategies(Lower(content_type), Lower(content_type), topic,
                                         DEFAULT_DOMAINS)
         IN  ContentStrategy(entry.query, StrList(entry.domains), entry.keywords)
    ELSE ContentStrategy(generic_query, StrList(DEFAULT_DOMAINS), <<>>)

\* C16 as stated: the strategy is looked up case-insensitively, and a content
\* type outside the five known ones gets the generic strategy whose query is
\* the raw topic unchanged, over the full default set, with no keywords.
C16_GenericQueryIsRawTopic ==
    DiscoverDispatched =>
        LET content_type == req.arguments.content_type.s
            topic == req.arguments.topic.s
        IN  DispatchedStrategy = ExpectedStrategy(content_type, topic, topic)

\* C16 amended: as above, except that the generic strategy's query is the
\* topic, a space, and the content type as the caller wrote it.
C16_StrategyLookup ==
    DiscoverDispatched =>
        LET content_type == req.arguments.content_type.s
            topic == req.arguments.topic.s
        IN  DispatchedStrategy =
                ExpectedStrategy(content_type, topic, topic \o <<" ">> \o content_type)

\* a search dispatched for the unknown type "podcast" on the topic "cuda"
C16_Witness ==
    /\ DiscoverDispatched
    /\ req.arguments.content_type.s = CT_podcast
    /\ frame.query = Q_cuda \o <<" ">> \o CT_podcast
    /\ Len(tasks) = Len(DEFAULT_DOMAINS)
    /\ frame.keywords = <<>>

\* the keywords of r's text: 3 for each one found in the title, 2 in the
\* snippet, 1 in the URL, all compared in lower case
WeightedMatches(r, K) ==
    WEIGHT_TITLE * Cardinality({k \in 1..Len(K) : Contains(Lower(r.title), K[k])})
    + WEIGHT_SNIPPET * Cardinality({k \in 1..Len(K) : Contains(Lower(r.snippet), K[k])})
    + WEIGHT_URL * Cardinality({k \in 1..Len(K) : Contains(Lower(r.url), K[k])})

\* the keyword list of the strategy of the request's content type
StrategyKeywords ==
    ExpectedStrategy(req.arguments.content_type.s, req.arguments.topic.s, <<>>).keywords

\* C17 as stated: every result discover_content returns has the score
\* round(100 * raw / (6 * |K|)) for the strategy's keyword list K, 0 when K
\* is empty, raw being 3 per keyword in the title, 2 in the snippet, 1 in the URL.
C17_RescoreRounded ==
    DiscoverReturned =>
        \A i \in 1..Len(response.results) :
            LET r == response.results[i]
                K == StrategyKeywords
            IN  r.relevance_score =
                    IF Len(K) > 0
                    THEN Round(SCORE_SCALE * WeightedMatches(r, K), WEIGHT_SUM * Len(K))
                    ELSE 0

\* C17 amended: the score is 100 * raw / (6 * |K|) truncated to an integer
\* (the largest integer not above it), 0 when K is empty; raw and K as stated.
C17_RescoreTruncated ==
    DiscoverReturned =>
        \A i \in 1..Len(response.results) :
            LET r == response.results[i]
                K == StrategyKeywords
                raw == WeightedMatches(r, K)
                max_possible == WEIGHT_SUM * Len(K)
            IN  IF Len(K) > 0
                THEN /\ r.relevance_score * max_possible <= SCORE_SCALE * raw
                     /\ SCORE_SCALE * raw < (r.relevance_score + 1) * max_possible
                ELSE r.relevance_score = 0

\* a returned result whose quotient has a fraction above one half
C17_Witness ==
    /\ DiscoverReturned
    /\ \E i \in 1..Len(response.results) :
          LET max_possible == WEIGHT_SUM * Len(StrategyKeywords)
              raw == WeightedMatches(response.results[i], StrategyKeywords)
          IN  /\ max_possible > 0
              /\ 2 * ((SCORE_SCALE * raw) % max_possible) > max_possible

\* a term as the extractor owes it: not empty, lower-case letters and digits
\* only, not a stopword
CleanTerm(w) ==
    /\ w # <<>>
    /\ \A i \in 1..Len(w) : w[i] \in Digits \/ \E j \in 1..Len(LowerChars) : LowerChars[j] = w[i]
    /\ w \notin Stopwords

\* C18: the extracted keywords are lower-cased, punctuation-free, non-empty
\* terms, none a stopword; "How to install CUDA for deep learning" gives
\* exactly cuda, deep, learning, install; a stopword-only text gives the empty
\* set; and extracting again from the joined keywords gives the same set.
C18_KeywordExtraction ==
    /\ extraction.passes >= 1 =>
          /\ \A w \in extraction.first : CleanTerm(w)
          /\ extraction.text = T_install_cuda =>
                extraction.first = {Q_cuda, W_deep, W_learning, W_install}
          /\ extraction.text = T_stopwords => extraction.first = {}
    /\ extraction.passes = 2 => extraction.again = extraction.first

\* the example text extracted twice
C18_Witness ==
    /\ extraction.passes = 2
    /\ extraction.text = T_install_cuda
    /\ Cardinality(extraction.again) = 4

MissingOrEmpty(v) == v.t \in {"absent", "none"} \/ (v.t = "str" /\ v.s = <<>>)

\* the request names no tool of the server, or lacks a required argument
ProgrammingError ==
    /\ req.name # ""
    /\ \/ req.name \notin {"search_nvidia", "discover_nvidia_content"}
       \/ req.name = "search_nvidia" /\ MissingOrEmpty(req.arguments.query)
       \/ /\ req.name = "discover_nvidia_content"
          /\ \/ MissingOrEmpty(req.arguments.content_type)
             \/ MissingOrEmpty(req.arguments.topic)

\* C19: a call with an unknown tool name, or without a required argument
\* (query; content_type or topic), raises an error; no domain search is
\* dispatched for it and no result payload is returned.
C19_HardErrors ==
    ProgrammingError =>
        /\ pc = "raised"
        /\ response.kind = "error"
        /\ response.message # <<>>
        /\ response.results = <<>>
        /\ tasks = <<>>
        /\ engineLog = <<>>
        /\ all_results = <<>>

\* a search_nvidia call with an empty query has raised "Query parameter is required"
C19_Witness ==
    /\ pc = "raised"
    /\ req.name = "search_nvidia"
    /\ req.arguments.query = PyStr(<<>>)
    /\ response.message = M_query_required

\* the results of the completed searches from the k-th domain of the list on
RECURSIVE InDomainOrder(_)
InDomainOrder(k) ==
    IF k > Len(tasks) THEN <<>>
    ELSE (IF tasks[k].st = "done" THEN tasks[k].results ELSE <<>>) \o InDomainOrder(k + 1)

\* C20: the list search_all_domains returns is fixed by the query, the domain
\* list and what the collaborators answered for each domain: it is those
\* answers' results in the order of the domain list, in whatever order the
\* concurrent domain searches suspended and finished.
C20_OrderDeterminism ==
    pc = "returned" =>
        /\ all_results = InDomainOrder(1)
        /\ frame.tool = "search_nvidia" => response.results = InDomainOrder(1)

\* two searches with different results, the later in the list finished first
C20_Witness ==
    /\ pc = "returned"
    /\ \E a, b \in 1..Len(arrival) :
          /\ a < b
          /\ arrival[a] > arrival[b]
          /\ tasks[arrival[a]].results # <<>>
          /\ tasks[arrival[b]].results # <<>>
          /\ tasks[arrival[a]].results # tasks[arrival[b]].results


\* C21: domain searches overlap: while one domain's engine query is awaiting
\* its response, the coroutines of the domains not yet started can start and
\* issue their own engine queries; the engine calls of the domains are not
\* forced to run strictly one after another.
C21_EngineCallsOverlap ==
    (/\ pc = "searching"
     /\ \E k \in 1..Len(tasks) : tasks[k].st = "engine"
     /\ \E j \in 1..Len(tasks) : tasks[j].st = "new") => CanStartTask


\* what a domain search still has to do: start, get the engine's answer (at
\* most MaxTotalHits hits), fetch the page of each hit it keeps
RemainingWork(task) ==
    IF task.st = "new" THEN MaxTotalHits + 2
    ELSE IF task.st = "engine" THEN MaxTotalHits + 1
    ELSE IF task.st = "fetch" THEN Len(task.pending)
    ELSE 0

RECURSIVE TotalWork(_)
TotalWork(ts) == IF ts = <<>> THEN 0 ELSE RemainingWork(Head(ts)) + TotalWork(Tail(ts))

\* C22: every invocation of search_all_domains returns a list, whatever each
\* domain search does (answers, fails, times out, raises): while the join
\* waits some domain search or the join itself can take a step, every step
\* uses up part of the finite work that remains, and the step that ends the
\* wait returns the list; no domain search keeps the join waiting forever.
C22_AggregatorTerminates ==
    /\ [](pc = "searching" =>
            CanStartTask \/ CanEngineReturn \/ CanFetchComplete \/ CanGather)
    /\ [][pc = "searching" =>
            \/ pc' = "searching" /\ TotalWork(tasks') < TotalWork(tasks)
            \/ /\ pc' = "returned"
               /\ TotalWork(tasks) = 0
               /\ response'.kind = "text"
               /\ response'.results = all_results' \/ frame.tool # "search_nvidia"
               /\ DOMAIN all_results' = 1..Len(all_results')]_vars

\* a list has been returned after one domain search raised, one ended in the
\* fallback entry and one delivered a hit
C22_Witness ==
    /\ pc = "returned"
    /\ response.kind = "text"
    /\ \E i, j, k \in 1..Len(tasks) :
          /\ tasks[i].st = "raised"
          /\ tasks[j].st = "done" /\ tasks[j].search_results = <<>> /\ tasks[j].results # <<>>
          /\ tasks[k].st = "done" /\ tasks[k].search_results # <<>> /\ tasks[k].results # <<>>


\* the results are hits of the engine's answer, in its order
RECURSIVE IsSubsequence(_, _)
IsSubsequence(results, hits) ==
    IF results = <<>> THEN TRUE
    ELSE IF hits = <<>> THEN FALSE
    ELSE IF Head(results).title = Head(hits).title /\ Head(results).url = Head(hits).href
         THEN IsSubsequence(Tail(results), Tail(hits))
         ELSE IsSubsequence(results, Tail(hits))

\* the engine answered the coroutine's query (it did not raise)
EngineAnswered(task) ==
    /\ task.st \in {"fetch", "done"}
    /\ ~(task.search_results = <<>> /\ task.results # <<>>)

\* C23: for every sequence of raw hits the engine returns, the list
\* search_nvidia_domain builds has at most max_results elements, its elements
\* are hits of the engine's sequence in the engine's order, and no hit with
\* an empty title or an empty URL is among them.
C23_SearcherOutputShape ==
    \A k \in 1..Len(tasks) :
        (pc \in {"searching", "returned"} /\ EngineAnswered(tasks[k])) =>
            /\ Len(tasks[k].results) <= frame.max_results
            /\ IsSubsequence(tasks[k].results, tasks[k].search_results)
            /\ \A i \in 1..Len(tasks[k].results) :
                  tasks[k].results[i].title # <<>> /\ tasks[k].results[i].url # <<>>

\* a domain search has returned one hit of an answer whose first hit had no title
C23_Witness ==
    \E k \in 1..Len(tasks) :
        /\ tasks[k].st = "done"
        /\ tasks[k].search_results = <<H_untitled, H_blog>>
        /\ Len(tasks[k].results) = 1
        /\ tasks[k].results[1].title = T_blog


\* the page fetch raised or timed out, answered with another status than 200,
\* or the page text does not hold the prefix of the snippet
EnrichmentFails(http, snippet) ==
    \/ http.kind = "raise"
    \/ http.status # 200
    \/ Find(Lower(Strip(CollapseWs(http.text))),
            Slice(Lower(Strip(CollapseWs(snippet))), 0, POS_PREFIX)) = -1

\* C24: enrichment is best-effort: whatever the page fetch does, the hit is
\* emitted, no earlier hit is removed, and the domain search neither fails nor
\* turns into the error placeholder; the emitted snippet is the engine's
\* snippet unless a fetch that answered 200 with the snippet's prefix in the
\* page text produced it (so a fetch that raises, times out, answers another
\* status or lacks the prefix leaves the engine's snippet).
C24_EnrichmentBestEffort ==
    [][\A k \in 1..Len(tasks) :
          (/\ pc = "searching" /\ pc' = "searching"
           /\ tasks[k].st = "fetch"
           /\ tasks'[k] # tasks[k]) =>
             LET hit == Head(tasks[k].pending)
                 before == tasks[k].results
                 after == tasks'[k].results
                 emitted == after[Len(after)]
             IN  /\ tasks'[k].st \in {"fetch", "done"}
                 /\ Len(after) = Len(before) + 1
                 /\ SubSeq(after, 1, Len(before)) = before
                 /\ emitted.title = hit.title /\ emitted.url = hit.href
                 /\ emitted.domain = tasks[k].clean
                 /\ \/ emitted.snippet = hit.body
                    \/ \E http \in HttpOutcomes :
                          /\ ~EnrichmentFails(http, hit.body)
                          /\ emitted.snippet = fetch_url_context(http, hit.body, CONTEXT_CHARS)]_vars

\* a hit whose page holds its snippet was emitted with the engine's snippet,
\* as every failing outcome of its fetch leaves it, and the domain search
\* went on to return
C24_Witness ==
    \E k \in 1..Len(tasks) :
        /\ tasks[k].st = "done"
        /\ tasks[k].search_results = <<H_blog, H_video>>
        /\ Len(tasks[k].results) = 2
        /\ tasks[k].results[2].title = T_video
        /\ tasks[k].results[2].snippet = B_watch
        /\ ~EnrichmentFails(HttpResponse("response", 200, P_match), B_watch)
        /\ fetch_url_context(HttpResponse("response", 200, P_match), B_watch, CONTEXT_CHARS) # B_watch
        /\ \A http \in HttpOutcomes :
              EnrichmentFails(http, B_watch) =>
                  fetch_url_context(http, B_watch, CONTEXT_CHARS) = B_watch
        /\ \E http \in HttpOutcomes : http.kind = "raise" /\ EnrichmentFails(http, B_watch)
        /\ \E http \in HttpOutcomes : http.kind = "response" /\ http.status # 200
        /\ \E http \in HttpOutcomes : http.status = 200 /\ EnrichmentFails(http, B_watch)


\* the coroutine has computed clean_domain from a domain the validator accepts
NormalizesValidDomain(task) ==
    /\ task.domain.t = "str"
    /\ task.st \in {"engine", "fetch", "done"}
    /\ validate_nvidia_domain(task.domain.s)

\* C25: for every domain string the Domain Validator accepts, one with a path
\* included, search_nvidia_domain scopes its engine query to the bare hostname
\* of the domain and stamps it on every result, the placeholder included: no
\* scheme, no path, no trailing slash, the hostname the validator accepted.
C25_DomainNormalization ==
    \A k \in 1..Len(tasks) :
        (pc \in {"searching", "returned"} /\ NormalizesValidDomain(tasks[k])) =>
            LET hostname == ValidatedHostname(tasks[k].domain.s)
            IN  /\ tasks[k].clean = hostname
                /\ \E i \in 1..Len(engineLog) : engineLog[i].domain = hostname
                /\ \A i \in 1..Len(tasks[k].results) : tasks[k].results[i].domain = hostname

=============================================================================
